---- MODULE Spec2Model ----
(***************************************************************************)
(* A model of cashflow's main.go: the ledger parser, the filter, the       *)
(* projection builder and the aggregation routines, run as the pipeline    *)
(* of main().                                                              *)
(*                                                                         *)
(* Representation.                                                         *)
(*  - A float64 is an integer number of hundredths (10 is 1000, -0.5 is    *)
(*    -50).  The inputs are chosen so that every product is exact.  Go's   *)
(*    -0.0 compares equal to 0 (-0.0 >= 0 is true, -0.0 < 0 is false), as  *)
(*    the integer 0 does.                                                  *)
(*  - A time.Time is the number of days since 0001-01-01, the zero Time.   *)
(*  - Go's string functions are tables over the strings the inputs use.    *)
(*  - A *float64 is <<>> (nil) or <<v>>.                                   *)
(*  - A line of the file is the outcome of the two regular expressions on  *)
(*    it: which one matched, and the captured groups.                      *)
(***************************************************************************)
EXTENDS Integers, Sequences, FiniteSets, TLC

VARIABLES
    pc,            \* position in main()
    flags,         \* the CLI flag variables (lines 25-34)
    file,          \* the lines of the ledger file
    lineNo,        \* number of lines the scanner has delivered
    currentDate,   \* parseSimpleMarkdown's date cursor
    transactions,  \* the parser's output
    filtered,      \* main's transactions after applyFilters
    summary,       \* what printSummary computed
    projection,    \* buildProjection's result
    sideBySide,    \* what printSideBySide computed
    exported       \* what exportProjectionMarkdown computed

vars == <<pc, flags, file, lineNo, currentDate, transactions, filtered,
          summary, projection, sideBySide, exported>>

----------------------------------------------------------------------------
(* Library functions, as tables *)

Range(s) == {s[i] : i \in 1..Len(s)}

SeqsUpTo(S, n) == UNION {[1..k -> S] : k \in 0..n}

\* strings.ToLower
ToLower(s) ==
    CASE s = "Food" -> "food"
      [] s = "FOOD" -> "food"
      [] s = " Food" -> " food"
      [] s = "Salary" -> "salary"
      [] s = "Expense" -> "expense"
      [] s = "EXPENSE" -> "expense"
      [] s = "Income" -> "income"
      [] s = "A" -> "a"
      [] s = "B" -> "b"
      [] s = "C" -> "c"
      [] OTHER -> s      \* strings without upper-case letters

\* strings.EqualFold, on ASCII
EqualFold(a, b) == ToLower(a) = ToLower(b)

\* strings.TrimSpace
TrimSpace(s) ==
    CASE s = " " -> ""
      [] s = " Food" -> "Food"
      [] s = " food" -> "food"
      [] s = " Salary" -> "Salary"
      [] s = " salary" -> "salary"
      [] s = " B" -> "B"
      [] s = " C" -> "C"
      [] s = " Salary=0.2" -> "Salary=0.2"
      [] OTHER -> s      \* strings without leading or trailing space

\* strings.Split(s, ",")
Split(s) ==
    CASE s = "Food, Salary" -> <<"Food", " Salary">>
      [] s = "Salary, Food" -> <<"Salary", " Food">>
      [] s = "Food,Food" -> <<"Food", "Food">>
      [] s = "Food," -> <<"Food", "">>
      [] s = "A, B" -> <<"A", " B">>
      [] s = "B, C" -> <<"B", " C">>
      [] s = "Food, salary" -> <<"Food", " salary">>
      [] s = "Food=-0.5,Salary=0.2" -> <<"Food=-0.5", "Salary=0.2">>
      [] s = "Salary=0.2,Food=-0.5" -> <<"Salary=0.2", "Food=-0.5">>
      [] s = "Food=-0.5,Food=0.2" -> <<"Food=-0.5", "Food=0.2">>
      [] s = "Food=x, ,Salary, Salary=0.2" ->
             <<"Food=x", " ", "Salary", " Salary=0.2">>
      [] OTHER -> <<s>>

\* strings.SplitN(entry, "=", 2)
SplitN(entry) ==
    CASE entry = "Food=-0.5" -> <<"Food", "-0.5">>
      [] entry = "Food=0.2" -> <<"Food", "0.2">>
      [] entry = "Food=-1" -> <<"Food", "-1">>
      [] entry = "Food=-2" -> <<"Food", "-2">>
      [] entry = "Food=x" -> <<"Food", "x">>
      [] entry = "food=1" -> <<"food", "1">>
      [] entry = "Salary=0.2" -> <<"Salary", "0.2">>
      [] entry = " Salary=0.2" -> <<" Salary", "0.2">>
      [] OTHER -> <<entry>>

\* strconv.ParseFloat(s, 64): the value in hundredths, or an error
ParseFloat(s) ==
    CASE s = "0" -> [ok |-> TRUE, val |-> 0]
      [] s = "1" -> [ok |-> TRUE, val |-> 100]
      [] s = "5" -> [ok |-> TRUE, val |-> 500]
      [] s = "8" -> [ok |-> TRUE, val |-> 800]
      [] s = "10" -> [ok |-> TRUE, val |-> 1000]
      [] s = "20" -> [ok |-> TRUE, val |-> 2000]
      [] s = "50" -> [ok |-> TRUE, val |-> 5000]
      [] s = "100" -> [ok |-> TRUE, val |-> 10000]
      [] s = "0.2" -> [ok |-> TRUE, val |-> 20]
      [] s = "-0.5" -> [ok |-> TRUE, val |-> -50]
      [] s = "-1" -> [ok |-> TRUE, val |-> -100]
      [] s = "-2" -> [ok |-> TRUE, val |-> -200]
      [] OTHER -> [ok |-> FALSE, val |-> 0]     \* "1.2.3", "x", ...

\* the zero time.Time, 0001-01-01
ZeroTime == 0

\* time.Parse("2006-01-02", s): days since 0001-01-01, or an error
TimeParse(s) ==
    CASE s = "0000-12-31" -> [ok |-> TRUE, t |-> -1]
      [] s = "0001-01-01" -> [ok |-> TRUE, t |-> 0]
      [] s = "2024-01-01" -> [ok |-> TRUE, t |-> 738885]
      [] s = "2024-02-01" -> [ok |-> TRUE, t |-> 738916]
      [] OTHER -> [ok |-> FALSE, t |-> ZeroTime]  \* "2024-13-45", "soon"

\* Time.IsZero
IsZero(t) == t = ZeroTime

\* byte order of the strings that occur as tag keys (for sort.Strings)
StrRank(s) ==
    CASE s = "" -> 0
      [] s = "A" -> 1
      [] s = "B" -> 2
      [] s = "C" -> 3
      [] s = "Food" -> 4
      [] s = "Salary" -> 5
      [] s = "_untagged_" -> 6
      [] s = "food" -> 7
      [] OTHER -> 8      \* "salary"

----------------------------------------------------------------------------
(* parseSimpleMarkdown *)

\* A line after TrimSpace: re is the regular expression that matched
\* ("date", "txn", "none"), or "blank"; m are the captured groups.
DateLine(d) == [re |-> "date", m |-> <<d>>]
TxnLine(sign, mag, desc, tags, proj) ==
    [re |-> "txn", m |-> <<sign, mag, desc, tags, proj>>]
BlankLine == [re |-> "blank", m |-> <<>>]
NoteLine == [re |-> "none", m |-> <<>>]

\* headingDate without the check of Parse's error: the cursor is assigned
\* the zero Time that a failed Parse returns
headingDate_unchecked(cur, m) == TimeParse(m[1]).t

\* lines 95-101: the cursor after a date heading
headingDate(cur, m) ==
    LET date == TimeParse(m[1])
    IN  IF date.ok THEN date.t ELSE cur

\* lines 114-120: the tag list of a transaction line
parseTags(m4) ==
    IF m4 # ""
    THEN [i \in 1..Len(Split(m4)) |-> TrimSpace(Split(m4)[i])]
    ELSE <<>>

\* lines 122-128
parseProjected(m5) ==
    IF m5 # "" /\ ParseFloat(m5).ok THEN <<ParseFloat(m5).val>> ELSE <<>>

\* line 132
typeOf(amount) == IF amount >= 0 THEN "income" ELSE "expense"

\* lines 103-138: the transactions a transaction line appends
parseTxn(cur, m) ==
    LET mag == ParseFloat(m[2])
        amount == IF m[1] = "-" THEN -mag.val ELSE mag.val
    IN  IF ~mag.ok THEN <<>>
        ELSE << [Date |-> cur,
                 Type |-> typeOf(amount),
                 Amount |-> amount,
                 Description |-> TrimSpace(m[3]),
                 Tags |-> parseTags(m[4]),
                 ProjectedAmount |-> parseProjected(m[5])] >>

\* lines 89-140: one iteration of the scanner loop
ScanLine ==
    /\ pc = "parse"
    /\ lineNo < Len(file)
    /\ LET line == file[lineNo + 1]
       IN  /\ lineNo' = lineNo + 1
           /\ currentDate' = IF line.re = "date"
                             THEN headingDate(currentDate, line.m)
                             ELSE currentDate
           /\ transactions' = IF line.re = "txn"
                              THEN transactions \o parseTxn(currentDate, line.m)
                              ELSE transactions
    /\ UNCHANGED <<pc, flags, file, filtered, summary, projection,
                   sideBySide, exported>>

\* line 142, and line 50: the scanner is exhausted
ParseReturn ==
    /\ pc = "parse"
    /\ lineNo = Len(file)
    /\ pc' = "filter"
    /\ UNCHANGED <<flags, file, lineNo, currentDate, transactions, filtered,
                   summary, projection, sideBySide, exported>>

----------------------------------------------------------------------------
(* applyFilters *)

\* lines 400-409
parseRemovals(s) ==
    {TrimSpace(ToLower(Split(s)[i])) : i \in 1..Len(Split(s))} \ {""}

\* lines 411-418
hasAnyTag(txn, tagSet) ==
    \E i \in 1..Len(txn.Tags) : ToLower(txn.Tags[i]) \in tagSet

\* lines 191-198
hasTag(txn, tag) ==
    \E i \in 1..Len(txn.Tags) : EqualFold(txn.Tags[i], tag)

\* lines 150-163: the parsed bound of a date flag, the zero Time when unset
dateFlag(s) == IF s # "" THEN TimeParse(s) ELSE [ok |-> TRUE, t |-> ZeroTime]

\* lines 170-185: the loop body, TRUE when txn is appended to result
keeps(txn, fl, removeSet, from, to) ==
    /\ ~hasAnyTag(txn, removeSet)
    /\ ~(fl.filterTag # "" /\ ~hasTag(txn, fl.filterTag))
    /\ ~(fl.filterType # "" /\ ~EqualFold(txn.Type, fl.filterType))
    /\ ~(~IsZero(from) /\ txn.Date < from)
    /\ ~(~IsZero(to) /\ txn.Date > to)

\* lines 145-189; exit is os.Exit(1) on an invalid date flag
applyFilters(txns, fl) ==
    LET from == dateFlag(fl.fromDate)
        to == dateFlag(fl.toDate)
        removeSet == parseRemovals(fl.removeTags)
    IN  IF ~from.ok \/ ~to.ok
        THEN [exit |-> TRUE, result |-> <<>>]
        ELSE [exit |-> FALSE,
              result |-> SelectSeq(txns,
                  LAMBDA t : keeps(t, fl, removeSet, from.t, to.t))]

\* line 56
ApplyFilters ==
    /\ pc = "filter"
    /\ LET r == applyFilters(transactions, flags)
       IN  /\ pc' = IF r.exit THEN "exit" ELSE "summary"
           /\ filtered' = r.result
    /\ UNCHANGED <<flags, file, lineNo, currentDate, transactions, summary,
                   projection, sideBySide, exported>>

----------------------------------------------------------------------------
(* The aggregation routines *)

\* the key of the bucket of the transactions without tags (lines 235, 299, 478)
Untagged == "_untagged_"

\* out[key] += amt on a Go map, a missing key reading as 0
bucketAdd(out, key, amt) ==
    [k \in DOMAIN out \cup {key} |->
        IF k = key
        THEN (IF key \in DOMAIN out THEN out[key] ELSE 0) + amt
        ELSE out[k]]

RECURSIVE bucketAddAll(_, _, _)
\* lines 480-482 (and 237-239): the loop over a transaction's tags
bucketAddAll(out, tags, amt) ==
    IF tags = <<>> THEN out
    ELSE bucketAddAll(bucketAdd(out, Head(tags), amt), Tail(tags), amt)

\* lines 477-483: the loop body of tagTotals
tagTotalsStep(out, txn) ==
    IF Len(txn.Tags) = 0
    THEN bucketAdd(out, Untagged, txn.Amount)
    ELSE bucketAddAll(out, txn.Tags, txn.Amount)

RECURSIVE tagTotalsFrom(_, _)
tagTotalsFrom(out, txns) ==
    IF txns = <<>> THEN out
    ELSE tagTotalsFrom(tagTotalsStep(out, Head(txns)), Tail(txns))

\* lines 474-486
tagTotals(txns) == tagTotalsFrom(<<>>, txns)

\* lines 231-241: printTagSummary's tagSums, the same loop
printTagSummary(txns) == tagTotalsFrom(<<>>, txns)

RECURSIVE totalAmountsFrom(_, _)
totalAmountsFrom(acc, txns) ==
    IF txns = <<>> THEN acc
    ELSE LET t == Head(txns)
         IN  totalAmountsFrom(
                 IF t.Amount >= 0
                 THEN [acc EXCEPT !.income = @ + t.Amount]
                 ELSE [acc EXCEPT !.expenses = @ + t.Amount],
                 Tail(txns))

\* lines 463-472 (and 202-216)
totalAmounts(txns) == totalAmountsFrom([income |-> 0, expenses |-> 0], txns)

\* lines 302-311: one tag of an expense transaction
statAdd(tagData, tag, amt) ==
    [k \in DOMAIN tagData \cup {tag} |->
        IF k = tag
        THEN (IF tag \in DOMAIN tagData
              THEN [Total |-> tagData[tag].Total + amt,
                    Count |-> tagData[tag].Count + 1]
              ELSE [Total |-> amt, Count |-> 1])
        ELSE tagData[k]]

RECURSIVE statAddAll(_, _, _)
statAddAll(tagData, tags, amt) ==
    IF tags = <<>> THEN tagData
    ELSE statAddAll(statAdd(tagData, Head(tags), amt), Tail(tags), amt)

\* lines 293-313: the loop body
tagDataStep(tagData, txn) ==
    IF txn.Amount >= 0 THEN tagData
    ELSE statAddAll(tagData,
                    IF Len(txn.Tags) = 0 THEN <<Untagged>> ELSE txn.Tags,
                    txn.Amount)

RECURSIVE tagDataFrom(_, _)
tagDataFrom(tagData, txns) ==
    IF txns = <<>> THEN tagData
    ELSE tagDataFrom(tagDataStep(tagData, Head(txns)), Tail(txns))

\* lines 316-320: the stats, AvgPerTxn being the quotient num / den
statsOf(txns) ==
    LET tagData == tagDataFrom(<<>>, txns)
    IN  {[Tag |-> k,
          Total |-> tagData[k].Total,
          Count |-> tagData[k].Count,
          AvgPerTxn |-> [num |-> tagData[k].Total, den |-> tagData[k].Count]] :
            k \in DOMAIN tagData}

RECURSIVE sortedByTotal(_)
\* lines 323-325: the orders sort.Slice can leave the stats in; the map is
\* ranged over in any order and the sort is not stable, so entries of equal
\* Total come out in any order
sortedByTotal(stats) ==
    IF stats = {} THEN {<<>>}
    ELSE UNION { {<<s>> \o rest : rest \in sortedByTotal(stats \ {s})} :
                    s \in {x \in stats : \A y \in stats : x.Total <= y.Total} }

\* lines 283-340: the rows printHighImpactTags can print
printHighImpactTags(txns, topN) ==
    LET stats == statsOf(txns)
        limit == IF Cardinality(stats) < topN THEN Cardinality(stats) ELSE topN
    IN  {SubSeq(s, 1, limit) : s \in sortedByTotal(stats)}

\* lines 225 and 590
TopN == 10

\* lines 200-228
PrintSummary ==
    /\ pc = "summary"
    /\ \E rows \in printHighImpactTags(filtered, TopN) :
          summary' = [incomeTotal |-> totalAmounts(filtered).income,
                      expenseTotal |-> totalAmounts(filtered).expenses,
                      tagSums |-> printTagSummary(filtered),
                      highImpact |-> rows]
    /\ pc' = "project"
    /\ UNCHANGED <<flags, file, lineNo, currentDate, transactions, filtered,
                   projection, sideBySide, exported>>

----------------------------------------------------------------------------
(* buildProjection *)

\* lines 385-395: one entry of the adjustment specification
adjustEntry(out, entry) ==
    LET parts == SplitN(entry)
        key == TrimSpace(parts[1])
    IN  IF TrimSpace(entry) = "" THEN out
        ELSE IF Len(parts) # 2 THEN out
        ELSE IF ~ParseFloat(parts[2]).ok THEN out
        ELSE [k \in DOMAIN out \cup {key} |->
                 IF k = key THEN ParseFloat(parts[2]).val ELSE out[k]]

RECURSIVE parseAdjustmentsFrom(_, _)
parseAdjustmentsFrom(out, entries) ==
    IF entries = <<>> THEN out
    ELSE parseAdjustmentsFrom(adjustEntry(out, Head(entries)), Tail(entries))

\* lines 382-398: tag -> delta in hundredths
parseAdjustments(s) == parseAdjustmentsFrom(<<>>, Split(s))

\* lines 656-661
signum(v) == IF v < 0 THEN -1 ELSE 1

\* inlineAmount without the sign of the original
inlineAmount_unsigned(txn) == txn.ProjectedAmount[1]

\* line 360: the amount of a transaction with an inline projected amount
inlineAmount(txn) == signum(txn.Amount) * txn.ProjectedAmount[1]

RECURSIVE tagAdjusted_nobreak(_, _, _)
\* tagAdjusted without the break: every matching tag is applied
tagAdjusted_nobreak(amount, tags, adjustMap) ==
    IF tags = <<>> THEN amount
    ELSE tagAdjusted_nobreak(
             IF Head(tags) \in DOMAIN adjustMap
             THEN (amount * (100 + adjustMap[Head(tags)])) \div 100
             ELSE amount,
             Tail(tags), adjustMap)

RECURSIVE tagAdjusted(_, _, _)
\* lines 363-368: Amount *= (1.0 + adj) for the first tag in adjustMap
tagAdjusted(amount, tags, adjustMap) ==
    IF tags = <<>> THEN amount
    ELSE IF Head(tags) \in DOMAIN adjustMap
         THEN (amount * (100 + adjustMap[Head(tags)])) \div 100
         ELSE tagAdjusted(amount, Tail(tags), adjustMap)

\* lines 355-369: the copy of txn that is appended to projected
adjustedTxn(txn, adjustMap) ==
    IF txn.ProjectedAmount # <<>>
    THEN [txn EXCEPT !.Amount = inlineAmount(txn)]
    ELSE [txn EXCEPT !.Amount = tagAdjusted(txn.Amount, txn.Tags, adjustMap)]

\* buildProjection adjusting the elements of original in place
buildProjection_inplace(original, adjust) ==
    LET adjustMap == parseAdjustments(adjust)
        projected == [i \in 1..Len(original) |->
                         adjustedTxn(original[i], adjustMap)]
    IN  [Original |-> projected, Projected |-> projected,
         AdjustMap |-> adjustMap]

\* lines 348-380
buildProjection(original, adjust) ==
    LET adjustMap == parseAdjustments(adjust)
    IN  [Original |-> original,
         Projected |-> [i \in 1..Len(original) |->
                           adjustedTxn(original[i], adjustMap)],
         AdjustMap |-> adjustMap]

\* line 59
BuildProjection ==
    /\ pc = "project"
    /\ projection' = buildProjection(filtered, flags.adjustTags)
    /\ pc' = "sidebyside"
    /\ UNCHANGED <<flags, file, lineNo, currentDate, transactions, filtered,
                   summary, sideBySide, exported>>

----------------------------------------------------------------------------
(* printSideBySide and exportProjectionMarkdown *)

RECURSIVE sortStrings(_)
\* sort.Strings on a set of keys
sortStrings(S) ==
    IF S = {} THEN <<>>
    ELSE LET least == CHOOSE x \in S : \A y \in S : StrRank(x) <= StrRank(y)
         IN  <<least>> \o sortStrings(S \ {least})

\* lines 449-457 (and 532-540): what is printed for one tag
tagChange(tag, origByTag, projByTag) ==
    IF tag \notin DOMAIN origByTag THEN "added"
    ELSE IF tag \notin DOMAIN projByTag THEN "removed"
    ELSE IF origByTag[tag] # projByTag[tag] THEN "changed"
    ELSE "same"

\* lines 431-458 (and 514-541): the rows of the tag table, unchanged tags
\* being left out
tagChanges(origByTag, projByTag) ==
    LET tags == sortStrings(DOMAIN origByTag \cup DOMAIN projByTag)
        rows == [i \in 1..Len(tags) |->
                    [tag |-> tags[i],
                     change |-> tagChange(tags[i], origByTag, projByTag)]]
    IN  SelectSeq(rows, LAMBDA r : r.change # "same")

\* lines 420-461
printSideBySide(p) ==
    [origIncome |-> totalAmounts(p.Original).income,
     origExpense |-> totalAmounts(p.Original).expenses,
     projIncome |-> totalAmounts(p.Projected).income,
     projExpense |-> totalAmounts(p.Projected).expenses,
     origByTag |-> tagTotals(p.Original),
     projByTag |-> tagTotals(p.Projected),
     changes |-> tagChanges(tagTotals(p.Original), tagTotals(p.Projected))]

\* lines 60-62
PrintSideBySide ==
    /\ pc = "sidebyside"
    /\ sideBySide' = printSideBySide(projection)
    /\ pc' = IF flags.exportMarkdown # "" THEN "export" ELSE "done"
    /\ UNCHANGED <<flags, file, lineNo, currentDate, transactions, filtered,
                   summary, projection, exported>>

\* lines 488-647, and 63-68: the tables written to the file
ExportProjectionMarkdown ==
    /\ pc = "export"
    /\ \E rows \in printHighImpactTags(projection.Original, TopN) :
          exported' = [table |-> printSideBySide(projection),
                       highImpact |-> rows]
    /\ pc' = "done"
    /\ UNCHANGED <<flags, file, lineNo, currentDate, transactions, filtered,
                   summary, projection, sideBySide>>

Next ==
    \/ ScanLine
    \/ ParseReturn
    \/ ApplyFilters
    \/ PrintSummary
    \/ BuildProjection
    \/ PrintSideBySide
    \/ ExportProjectionMarkdown

----------------------------------------------------------------------------
(* Runs of main() *)

NoFlags ==
    [filterTag |-> "", filterType |-> "", fromDate |-> "", toDate |-> "",
     removeTags |-> "", adjustTags |-> "", exportMarkdown |-> ""]

\* the state main() starts in, on a ledger and a command line
InitOn(Files, Flags) ==
    /\ pc = "parse"
    /\ file \in Files
    /\ flags \in Flags
    /\ lineNo = 0
    /\ currentDate = ZeroTime
    /\ transactions = <<>>
    /\ filtered = <<>>
    /\ summary = [incomeTotal |-> 0, expenseTotal |-> 0, tagSums |-> <<>>,
                  highImpact |-> <<>>]
    /\ projection = [Original |-> <<>>, Projected |-> <<>>, AdjustMap |-> <<>>]
    /\ sideBySide = printSideBySide(
                       [Original |-> <<>>, Projected |-> <<>>, AdjustMap |-> <<>>])
    /\ exported = [table |-> printSideBySide(
                       [Original |-> <<>>, Projected |-> <<>>, AdjustMap |-> <<>>]),
                   highImpact |-> <<>>]

\* Ledgers with headings of every kind
MaxParseLines == 3

ParseLines ==
    {BlankLine, NoteLine,
     DateLine("2024-01-01"), DateLine("2024-02-01"), DateLine("2024-13-45"),
     TxnLine("-", "10", "Lunch", "Food", ""),
     TxnLine("+", "1.2.3", "Pay", "", "")}

ParseFlags ==
    {NoFlags,
     [NoFlags EXCEPT !.exportMarkdown = "out.md"],
     [NoFlags EXCEPT !.fromDate = "soon"]}

InitParse == InitOn(SeqsUpTo(ParseLines, MaxParseLines), ParseFlags)

SpecParse == InitParse /\ [][Next]_vars

\* Ledgers and command lines for the filter
MaxFilterLines == 3

FilterLines ==
    {DateLine("2024-01-01"), DateLine("2024-02-01"),
     TxnLine("-", "10", "Lunch", "Food", ""),
     TxnLine("+", "100", "Pay", "Salary", ""),
     TxnLine("-", "5", "Bus", "", "")}

DateRanges ==
    {<<"", "">>, <<"2024-02-01", "">>, <<"", "2024-01-01">>,
     <<"2024-01-01", "2024-02-01">>, <<"0001-01-01", "">>,
     <<"", "0001-01-01">>, <<"", "2024-13-45">>}

FilterFlags ==
    {[filterTag |-> tg, filterType |-> ty, fromDate |-> d[1], toDate |-> d[2],
      removeTags |-> rm, adjustTags |-> "", exportMarkdown |-> ex] :
        tg \in {"", "FOOD"}, ty \in {"", "Expense"}, d \in DateRanges,
        rm \in {"", "Food, salary"}, ex \in {"", "out.md"}}

InitFilter == InitOn(SeqsUpTo(FilterLines, MaxFilterLines), FilterFlags)

SpecFilter == InitFilter /\ [][Next]_vars

\* Ledgers and adjustment specifications for the projection
MaxProjectLines == 2

ProjectLines ==
    {DateLine("2024-01-01"),
     TxnLine("-", "10", "Lunch", "Food", ""),
     TxnLine("-", "10", "Lunch", "Food", "8"),
     TxnLine("-", "10", "Lunch", "Food", "0"),
     TxnLine("+", "10", "Refund", "Food", "8"),
     TxnLine("-", "10", "Dinner", "Food, Salary", ""),
     TxnLine("+", "100", "Pay", "Salary, Food", ""),
     TxnLine("-", "5", "Bus", "", ""),
     TxnLine("+", "20", "Gift", "food", "1.2.3")}

AdjustSpecs ==
    {"", "Food=-0.5", "Food=-0.5,Salary=0.2", "Salary=0.2,Food=-0.5",
     "Food=-0.5,Food=0.2", "Food=-1", "Food=-2",
     "Food=x, ,Salary, Salary=0.2"}

ProjectFlags ==
    {[NoFlags EXCEPT !.adjustTags = a, !.exportMarkdown = ex] :
        a \in AdjustSpecs, ex \in {"", "out.md"}}

InitProject == InitOn(SeqsUpTo(ProjectLines, MaxProjectLines), ProjectFlags)

SpecProject == InitProject /\ [][Next]_vars

\* Ledgers with tag lists of every kind for the aggregation
MaxAggregateLines == 3

AggregateLines ==
    {TxnLine("-", "100", "Rent", "A, B", ""),
     TxnLine("-", "5", "Gum", "B, C", ""),
     TxnLine("-", "50", "Gas", "Food,Food", ""),
     TxnLine("-", "10", "Bus", "", ""),
     TxnLine("-", "20", "Misc", "_untagged_", ""),
     TxnLine("+", "20", "Gift", "Food,", "")}

AggregateFlags ==
    {NoFlags, [NoFlags EXCEPT !.exportMarkdown = "out.md"]}

InitAggregate ==
    InitOn(SeqsUpTo(AggregateLines, MaxAggregateLines), AggregateFlags)

SpecAggregate == InitAggregate /\ [][Next]_vars

----------------------------------------------------------------------------
(* Properties *)

Min(S) == CHOOSE x \in S : \A y \in S : x <= y
Max(S) == CHOOSE x \in S : \A y \in S : x >= y

RECURSIVE SumAmounts(_, _)
\* the sum of the Amounts of txns at the indices I
SumAmounts(txns, I) ==
    IF I = {} THEN 0
    ELSE LET i == CHOOSE x \in I : TRUE
         IN  txns[i].Amount + SumAmounts(txns, I \ {i})

AfterFilter == pc \in {"summary", "project", "sidebyside", "export", "done"}
AfterProjection == pc \in {"sidebyside", "export", "done"}
AfterSideBySide == pc \in {"export", "done"}

\* the transaction sequences the program holds
Sequences4 ==
    {transactions, filtered, projection.Original, projection.Projected}

(* ---- C8 ---- *)

\* the lines read so far that are headings with a date that parses
ValidHeadings(n) ==
    {j \in 1..n : file[j].re = "date" /\ TimeParse(file[j].m[1]).ok}

\* the date a transaction on line i must carry
DateAt(i) ==
    IF ValidHeadings(i - 1) = {} THEN ZeroTime
    ELSE TimeParse(file[Max(ValidHeadings(i - 1))].m[1]).t

\* the lines read so far that emit a transaction
EmittingLines ==
    {i \in 1..lineNo : file[i].re = "txn" /\ ParseFloat(file[i].m[2]).ok}

\* C8: every emitted transaction carries the date of the most recent
\* preceding heading whose date parsed, or the zero date when there is none;
\* only transaction lines emit (a heading never does); and the cursor is the
\* date of the last heading that parsed, so a heading that fails to parse
\* leaves it unchanged.
C8_DateCursor ==
    /\ Len(transactions) = Cardinality(EmittingLines)
    /\ \A i \in EmittingLines :
          transactions[Cardinality({j \in EmittingLines : j <= i})].Date
              = DateAt(i)
    /\ currentDate = DateAt(lineNo + 1)

\* a transaction was emitted after a heading that parsed and then a heading
\* that did not
C8_Witness ==
    \E i, j, k \in 1..lineNo :
        /\ i < j /\ j < k
        /\ i \in ValidHeadings(lineNo)
        /\ file[j].re = "date" /\ ~TimeParse(file[j].m[1]).ok
        /\ k \in EmittingLines
        /\ transactions[Cardinality({x \in EmittingLines : x <= k})].Date
              # ZeroTime

(* ---- C5 ---- *)

\* the positions of txn's tags that are keys of the adjustment map
MatchingTags(txn, adjustMap) ==
    {j \in 1..Len(txn.Tags) : txn.Tags[j] \in DOMAIN adjustMap}

\* C5: a transaction without an inline projected amount has its Amount
\* multiplied by (1 + delta) once, delta being the entry of its first tag
\* that is a key of the adjustment map; without such a tag the Amount is
\* the original one.
C5_FirstTagWins ==
    \A i \in 1..Len(projection.Projected) :
        LET o == projection.Original[i]
            M == MatchingTags(o, projection.AdjustMap)
        IN  o.ProjectedAmount = <<>> =>
                projection.Projected[i].Amount =
                    IF M = {} THEN o.Amount
                    ELSE (o.Amount
                            * (100 + projection.AdjustMap[o.Tags[Min(M)]]))
                         \div 100

\* a transaction with two tags that have different deltas was projected
C5_Witness ==
    \E i \in 1..Len(projection.Projected) :
        LET o == projection.Original[i]
        IN  /\ o.ProjectedAmount = <<>>
            /\ Cardinality(MatchingTags(o, projection.AdjustMap)) = 2
            /\ projection.AdjustMap[o.Tags[1]] # projection.AdjustMap[o.Tags[2]]
            /\ projection.Projected[i].Amount # o.Amount

(* ---- C4 ---- *)

\* Amount >= 0 on both or on neither: the side the aggregator books it on
SameSide(a, b) == (a >= 0) <=> (b >= 0)

\* C4 as stated: with an inline projected amount p the projected Amount is
\* sign(original) * p whatever the adjustment map holds, and it is on the
\* same income/expense side as the original (for p = 0 too).
C4_AsStated ==
    \A i \in 1..Len(projection.Projected) :
        LET o == projection.Original[i]
            q == projection.Projected[i]
        IN  o.ProjectedAmount # <<>> =>
                /\ q.Amount = (IF o.Amount < 0 THEN -1 ELSE 1)
                                  * o.ProjectedAmount[1]
                /\ SameSide(q.Amount, o.Amount)

\* C4, amended: the projected Amount is sign(original) * p whatever the
\* adjustment map holds; it is on the side of the original when p > 0 or the
\* original is income, and when p = 0 it is 0, on the income side.
C4_InlineAmount ==
    \A i \in 1..Len(projection.Projected) :
        LET o == projection.Original[i]
            q == projection.Projected[i]
        IN  o.ProjectedAmount # <<>> =>
                /\ q.Amount = (IF o.Amount < 0 THEN -1 ELSE 1)
                                  * o.ProjectedAmount[1]
                /\ (o.ProjectedAmount[1] > 0 \/ o.Amount >= 0)
                       => SameSide(q.Amount, o.Amount)
                /\ o.ProjectedAmount[1] = 0 => q.Amount = 0

\* an expense with an inline projected amount and a tag of the adjustment
\* map was projected
C4_Witness ==
    \E i \in 1..Len(projection.Projected) :
        LET o == projection.Original[i]
        IN  /\ o.ProjectedAmount # <<>>
            /\ o.ProjectedAmount[1] > 0
            /\ o.Amount < 0
            /\ MatchingTags(o, projection.AdjustMap) # {}
            /\ projection.AdjustMap[o.Tags[1]] # 0
            /\ projection.Projected[i].Amount = -o.ProjectedAmount[1]

(* ---- C10 ---- *)

\* C10: buildProjection returns its input as Original, element for element;
\* Projected has the length and order of Original and differs from it in
\* Amount only (Date, Description, Tags and ProjectedAmount are equal index
\* by index); so both tag totals have the same keys and the tag diff has no
\* "added" and no "removed" row.
C10_OnlyAmountsChange ==
    /\ AfterProjection =>
          /\ projection.Original = filtered
          /\ Len(projection.Projected) = Len(projection.Original)
          /\ \A i \in 1..Len(projection.Original) :
                LET o == projection.Original[i]
                    q == projection.Projected[i]
                IN  /\ q.Date = o.Date
                    /\ q.Description = o.Description
                    /\ q.Tags = o.Tags
                    /\ q.ProjectedAmount = o.ProjectedAmount
    /\ AfterSideBySide =>
          /\ DOMAIN sideBySide.origByTag = DOMAIN sideBySide.projByTag
          /\ \A k \in 1..Len(sideBySide.changes) :
                sideBySide.changes[k].change = "changed"

\* a projection of two transactions changed an amount, and the tag diff
\* reports the change
C10_Witness ==
    /\ AfterSideBySide
    /\ Len(projection.Original) = 2
    /\ \E i \in 1..2 :
          projection.Projected[i].Amount # projection.Original[i].Amount
    /\ Len(sideBySide.changes) > 0

(* ---- C3 ---- *)

\* C3: in every transaction sequence the program holds, Type is "income"
\* exactly when Amount >= 0 and "expense" otherwise.
C3_KindMatchesAmount ==
    \A S \in Sequences4 : \A i \in 1..Len(S) :
        S[i].Type = IF S[i].Amount >= 0 THEN "income" ELSE "expense"

(* ---- C1 ---- *)

\* C1: once the projection is built, no transaction of Projected carries a
\* removed tag, and Original is what the tag, type and date filters alone
\* keep of the parsed ledger, as with an empty removal specification.
C1_RemovalOnlyProjected ==
    AfterProjection =>
        /\ \A i \in 1..Len(projection.Projected) :
              ~hasAnyTag(projection.Projected[i],
                         parseRemovals(flags.removeTags))
        /\ projection.Original =
              applyFilters(transactions,
                           [flags EXCEPT !.removeTags = ""]).result

(* ---- C2 ---- *)

\* txn satisfies every filter field that is set
Satisfies(txn) ==
    /\ flags.filterTag # "" =>
          \E j \in 1..Len(txn.Tags) :
              ToLower(txn.Tags[j]) = ToLower(flags.filterTag)
    /\ flags.filterType # "" => ToLower(txn.Type) = ToLower(flags.filterType)
    /\ flags.fromDate # "" => txn.Date >= TimeParse(flags.fromDate).t
    /\ flags.toDate # "" => txn.Date <= TimeParse(flags.toDate).t

\* C2: applyFilters returns, in input order, exactly the transactions that
\* satisfy every set filter field, for every valid from and to (stated for
\* the runs without a removal specification, which C1 is about).
C2_ExactSubsequence ==
    (AfterFilter /\ parseRemovals(flags.removeTags) = {}) =>
        filtered = SelectSeq(transactions, Satisfies)

(* ---- C6, C7 ---- *)

\* the indices of the transactions of txns that carry tag t
Carrying(txns, t) ==
    {i \in 1..Len(txns) : \E j \in 1..Len(txns[i].Tags) : txns[i].Tags[j] = t}

\* the indices of the transactions of txns without tags
WithoutTags(txns) == {i \in 1..Len(txns) : txns[i].Tags = <<>>}

\* the tags written in txns
TagsOf(txns) == UNION {Range(txns[i].Tags) : i \in 1..Len(txns)}

\* C6: the total of every tag is the sum of the Amounts of the transactions
\* that carry it, each counted once with its full amount (the key of the
\* untagged bucket is C7's).
C6_TagTotals ==
    AfterSideBySide =>
        \A t \in TagsOf(projection.Original) \ {Untagged} :
            /\ t \in DOMAIN sideBySide.origByTag
            /\ sideBySide.origByTag[t] =
                  SumAmounts(projection.Original,
                             Carrying(projection.Original, t))

\* C7: the untagged bucket exists exactly when some transaction has no tags,
\* and its total is the sum of the Amounts of the transactions without tags.
C7_UntaggedBucket ==
    AfterSideBySide =>
        IF WithoutTags(projection.Original) = {}
        THEN Untagged \notin DOMAIN sideBySide.origByTag
        ELSE /\ Untagged \in DOMAIN sideBySide.origByTag
             /\ sideBySide.origByTag[Untagged] =
                   SumAmounts(projection.Original,
                              WithoutTags(projection.Original))

(* ---- C9 ---- *)

\* the largest top-N the ranking is examined with, besides the program's
MaxTopN == 3

\* the keys txn is booked under: its tags, or the untagged key
KeysOf(txn) == IF txn.Tags = <<>> THEN {Untagged} ELSE Range(txn.Tags)

\* the indices of the expense transactions of txns booked under key k
ExpensesUnder(txns, k) ==
    {i \in 1..Len(txns) : txns[i].Amount < 0 /\ k \in KeysOf(txns[i])}

\* the keys of the expense transactions of txns
ExpenseKeys(txns) ==
    UNION {KeysOf(txns[i]) : i \in {j \in 1..Len(txns) : txns[j].Amount < 0}}

\* rows is a correct top-n ranking of the expense tags of txns
IsRanking(rows, txns, n) ==
    /\ Len(rows) = IF Cardinality(ExpenseKeys(txns)) < n
                   THEN Cardinality(ExpenseKeys(txns)) ELSE n
    /\ \A a, b \in 1..Len(rows) : a # b => rows[a].Tag # rows[b].Tag
    /\ \A a \in 1..Len(rows) :
          /\ rows[a].Tag \in ExpenseKeys(txns)
          /\ rows[a].Total =
                SumAmounts(txns, ExpensesUnder(txns, rows[a].Tag))
          /\ rows[a].Count = Cardinality(ExpensesUnder(txns, rows[a].Tag))
          /\ rows[a].AvgPerTxn = [num |-> rows[a].Total, den |-> rows[a].Count]
    /\ \A a, b \in 1..Len(rows) : a < b => rows[a].Total <= rows[b].Total
    /\ \A k \in ExpenseKeys(txns) \ {rows[a].Tag : a \in 1..Len(rows)} :
          \A a \in 1..Len(rows) :
              rows[a].Total <= SumAmounts(txns, ExpensesUnder(txns, k))

\* C9: the high-impact list is over the expense transactions only; each
\* entry holds the sum, the number and the average of the expense
\* transactions under its tag; the entries are in non-decreasing order of
\* total, min(N, number of expense tags) of them, the N smallest totals.
C9_HighImpact ==
    AfterFilter =>
        \A n \in (1..MaxTopN) \cup {TopN} :
            \A rows \in printHighImpactTags(filtered, n) :
                IsRanking(rows, filtered, n)

====
